---------------------------- MODULE Spec2Model ----------------------------
(***************************************************************************)
(* A model of starfield.py: main() and StarfieldGenerator.                 *)
(*                                                                         *)
(* Representation.                                                         *)
(*  - A string is a sequence of one-character strings.                     *)
(*  - A real number is a fixed-point integer: a brightness b is B = 100*b  *)
(*    (hundredths), a density d is D = 100*d (percent).  Every float       *)
(*    expression of the source is computed exactly on these integers and   *)
(*    then converted as the source converts it (int() truncates toward     *)
(*    zero).  On BrightnessGrid, DensityArgs and the canvases used here    *)
(*    (ray steps up to 9) the exact value and the IEEE double value have   *)
(*    the same int().                                                      *)
(*  - An image (PIL image or numpy array) is a function from the pixel     *)
(*    <<x, y>> to the triple <<r, g, b>>; the numpy index [py, px] is the  *)
(*    pixel <<px, py>>.  None is the empty tuple.                          *)
(*  - The Pillow drawing calls clip to the canvas; an ellipse fills the    *)
(*    pixels of its bounding box inside the circle, its outline is the rim *)
(*    of that set.                                                         *)
(***************************************************************************)
EXTENDS Integers, Sequences, FiniteSets, TLC

VARIABLES
    pc,          \* position in main() / generate()
    args,        \* the parsed command line: [size, density, background]
    width,       \* generator.width
    height,      \* generator.height
    img,         \* the PIL image `img` of generate()
    stars,       \* the list `stars` of generate()
    drawn,       \* how many stars the first loop over `stars` has consumed
    spiked,      \* how many stars the second loop over `stars` has consumed
    img_array,   \* the numpy array `img_array` of generate()
    saved        \* the image written to args.output, None before

vars == <<pc, args, width, height, img, stars, drawn, spiked, img_array, saved>>

None == <<>>

(***************************************************************************)
(* Bounds of the model.                                                    *)
(***************************************************************************)
MaxStars == 2    \* command lines that sample more stars are not explored

(***************************************************************************)
(* Helpers.                                                                *)
(***************************************************************************)
Min(a, b) == IF a <= b THEN a ELSE b
Max(a, b) == IF a >= b THEN a ELSE b

\* Python int(n / d) of a quotient with d > 0: truncation toward zero.
Trunc(n, d) == IF n >= 0 THEN n \div d ELSE -((-n) \div d)

DecDigits == <<"0", "1", "2", "3", "4", "5", "6", "7", "8", "9">>
HexDigits == DecDigits \o <<"A", "B", "C", "D", "E", "F">>

IsDigit(c) == \E d \in 1..Len(DecDigits) : DecDigits[d] = c
IsHex(c) == \E d \in 1..Len(HexDigits) : HexDigits[d] = c
HexVal(c) == (CHOOSE d \in 1..Len(HexDigits) : HexDigits[d] = c) - 1

\* int(s) of a non-empty string of decimal digits.
RECURSIVE ToInt(_)
ToInt(s) ==
    IF s = <<>> THEN 0
    ELSE 10 * ToInt(SubSeq(s, 1, Len(s) - 1)) + HexVal(s[Len(s)])

\* The length of the longest run of decimal digits of s that starts at p.
RECURSIVE DigitRun(_, _)
DigitRun(s, p) ==
    IF p <= Len(s) /\ IsDigit(s[p]) THEN 1 + DigitRun(s, p + 1) ELSE 0

\* re.match(r'(\d+)[x:](\d+)', size_str): anchored at the start only.
\* <<width, height>>, or None when ArgumentTypeError is raised.
parse_size(s) ==
    LET n1 == DigitRun(s, 1)
        n2 == DigitRun(s, n1 + 2)
    IN  IF n1 >= 1 /\ n1 + 1 <= Len(s) /\ s[n1 + 1] \in {"x", ":"} /\ n2 >= 1
        THEN <<ToInt(SubSeq(s, 1, n1)), ToInt(SubSeq(s, n1 + 2, n1 + 1 + n2))>>
        ELSE None

\* 0.0 <= args.density <= 1.0, the density in percent.
DensityOk(d) == 0 <= d /\ d <= 100

\* int(total_pixels * self.density)
NumStars(w, h, d) == Trunc(w * h * d, 100)

Pixels(w, h) == (0..(w - 1)) \X (0..(h - 1))

\* Image.new('RGB', (w, h), color)
NewImage(w, h, color) == [p \in Pixels(w, h) |-> color]

\* hex_color = self.background.lstrip('#')
RECURSIVE Lstrip(_)
Lstrip(s) == IF s # <<>> /\ s[1] = "#" THEN Lstrip(Tail(s)) ELSE s

\* The files Image.open can load, as resized to (w, h) and converted to RGB.
ImageFile == <<"s", "k", "y">>
LoadImage(path, w, h) ==
    IF path = ImageFile
    THEN [p \in Pixels(w, h) |-> <<(250 * (p[1] + p[2] + 1)) % 256, 90, 7>>]
    ELSE None

\* parse_background(): the image, or None when ValueError is raised.
parse_background(bg, w, h) ==
    IF bg # <<>> /\ bg[1] = "#"
    THEN LET hex == Lstrip(bg)
         IN  IF Len(hex) = 6 /\ \A c \in 1..6 : IsHex(hex[c])
             THEN NewImage(w, h, <<16 * HexVal(hex[1]) + HexVal(hex[2]),
                                   16 * HexVal(hex[3]) + HexVal(hex[4]),
                                   16 * HexVal(hex[5]) + HexVal(hex[6])>>)
             ELSE None
    ELSE LoadImage(bg, w, h)

(***************************************************************************)
(* The command lines explored.                                             *)
(***************************************************************************)
\* --size: canvases of 1 to 9 pixels, the 9 x 9 canvas that holds a whole
\* diagonal ray, both separators, and malformed strings.
SizeArgs ==
    {<<"1", "x", "1">>, <<"2", "x", "1">>, <<"1", "x", "2">>, <<"3", "x", "1">>,
     <<"2", "x", "2">>, <<"3", "x", "2">>, <<"2", "x", "3">>, <<"3", "x", "3">>,
     <<"9", "x", "9">>, <<"2", ":", "1">>}
    \cup {<<"2", "x", "1", "a">>, <<"2", "x">>, <<"x", "2">>, <<"2", "2">>,
          <<"a", "2", "x", "1">>, <<>>}

\* --density, in percent.
DensityArgs == {-10, 0, 2, 20, 30, 100, 150}

\* --background
BackgroundArgs ==
    {<<"#", "0", "0", "0", "0", "0", "0">>,
     <<"#", "2", "0", "F", "0", "F", "F">>,
     ImageFile,
     <<"#", "1", "2", "3", "4", "5">>,
     <<"#", "G", "G", "0", "0", "0", "0">>,
     <<"n", "o">>}

\* The brightnesses generate_star_brightness() is taken to return.
BrightnessGrid == {100, 250, 300, 450, 600, 800, 850, 900, 905, 950, 960, 980, 1000}

WithinBounds(size, density) ==
    LET wh == parse_size(size)
    IN  wh # None /\ DensityOk(density)
            => NumStars(wh[1], wh[2], density) <= MaxStars

(***************************************************************************)
(* draw_star                                                               *)
(***************************************************************************)
\* The pixels of a filled ellipse whose bounding box is [cx-r, cy-r, cx+r, cy+r].
InEllipse(p, cx, cy, r) ==
    (p[1] - cx) * (p[1] - cx) + (p[2] - cy) * (p[2] - cy) <= r * r + r

\* The pixels of the outline of that ellipse.
OnOutline(p, cx, cy, r) ==
    /\ InEllipse(p, cx, cy, r)
    /\ \E d \in {<<1, 0>>, <<-1, 0>>, <<0, 1>>, <<0, -1>>} :
          ~InEllipse(<<p[1] + d[1], p[2] + d[2]>>, cx, cy, r)

\* draw.point((x, y), fill=color)
DrawPoint(im, x, y, color) ==
    [p \in DOMAIN im |-> IF p = <<x, y>> THEN color ELSE im[p]]

\* draw.ellipse([x-r, y-r, x+r, y+r], fill=color)
DrawEllipseFill(im, x, y, r, color) ==
    [p \in DOMAIN im |-> IF InEllipse(p, x, y, r) THEN color ELSE im[p]]

\* draw.ellipse([x-r, y-r, x+r, y+r], outline=color)
DrawEllipseOutline(im, x, y, r, color) ==
    [p \in DOMAIN im |-> IF OnOutline(p, x, y, r) THEN color ELSE im[p]]

\* Mutant: the intensity rounded to the nearest integer instead of truncated.
RoundedIntensity(B) == (2 * B * 255 + 1000) \div 2000

\* intensity = int((brightness / 10.0) * 255)
Intensity(B) == Trunc(B * 255, 1000)

Grey(v) == <<v, v, v>>

\* brightness < 3
IsPoint(B) == B < 300

\* brightness < 6
IsSmallDisc(B) == B < 600

\* radius = int(brightness / 5)
Radius(B) == Trunc(B, 500)

\* Mutant: the glow ring from brightness 8 on (>= for >).
HasGlowFromEight(B) == B >= 800

\* brightness > 8
HasGlow(B) == B > 800

draw_star(im, x, y, B) ==
    LET color == Grey(Intensity(B))
        glow_color == Grey(Intensity(B) \div 2)
        radius == Radius(B)
    IN  IF IsPoint(B) THEN DrawPoint(im, x, y, color)
        ELSE IF IsSmallDisc(B) THEN DrawEllipseFill(im, x, y, 1, color)
        ELSE IF HasGlow(B)
             THEN DrawEllipseOutline(DrawEllipseFill(im, x, y, radius, color),
                                     x, y, radius + 1, glow_color)
             ELSE DrawEllipseFill(im, x, y, radius, color)

(***************************************************************************)
(* draw_diffraction_spikes                                                 *)
(***************************************************************************)
\* Mutant: the early return at the orchestrator's threshold 8 instead of 9.
NoSpikesUpToEight(B) == B <= 800

\* if brightness <= 9: return
NoSpikes(B) == B <= 900

\* base_intensity = int((brightness / 10.0) * 255)
BaseIntensity(B) == Trunc(B * 255, 1000)

\* spike_length = int(8 + (brightness - 9) * 12)
SpikeLength(B) == Trunc(800 + (B - 900) * 12, 100)

\* spike_length // 2
DiagonalLength(B) == SpikeLength(B) \div 2

\* Mutant: diagonals from brightness 9.5 on (>= for >).
HasDiagonalsFromNineFive(B) == B >= 950

\* brightness > 9.5
HasDiagonals(B) == B > 950

\* int(base_intensity * spike_intensity * fade), fade = 1.0 - (i / spike_length)
SpikeVal(B, i) ==
    Trunc(BaseIntensity(B) * (B - 900) * (SpikeLength(B) - i), 100 * SpikeLength(B))

\* int(base_intensity * spike_intensity * fade * 0.5),
\* fade = 1.0 - (i / (spike_length // 2))
DiagonalVal(B, i) ==
    Trunc(BaseIntensity(B) * (B - 900) * (DiagonalLength(B) - i),
          200 * DiagonalLength(B))

\* Mutant: the sum stored without min(255, ...).
NewValUnclamped(current, spike_val) == current[1] + spike_val

\* Mutant: the spike value stored instead of added to the current value.
NewValOverwrite(current, spike_val) == Min(255, spike_val)

\* new_val = min(255, int(current[0]) + spike_val)
NewVal(current, spike_val) == Min(255, current[1] + spike_val)

\* if 0 <= px < self.width and 0 <= py < self.height
InCanvas(px, py, w, h) == 0 <= px /\ px < w /\ 0 <= py /\ py < h

CardinalDirs == {<<1, 0>>, <<-1, 0>>, <<0, 1>>, <<0, -1>>}
DiagonalDirs == {<<1, 1>>, <<-1, 1>>, <<1, -1>>, <<-1, -1>>}

\* Mutant: range(0, n) for range(1, n).
StepsAtFromZero(p, w, h, x, y, dirs, n) ==
    {i \in 0..(n - 1) :
        \E d \in dirs : p = <<x + d[1] * i, y + d[2] * i>>}

\* The steps i of range(1, n) at which a ray of dirs from (x, y) writes pixel p.
\* No two (direction, step) pairs of one call write the same pixel, so the
\* loops of one call are modelled as one simultaneous update.  From a star in
\* the canvas a step beyond Max(w, h) fails the bounds test, so the steps are
\* enumerated up to there.
StepsAt(p, w, h, x, y, dirs, n) ==
    {i \in 1..Min(n - 1, Max(w, h)) :
        \E d \in dirs : LET px == x + d[1] * i
                            py == y + d[2] * i
                        IN  InCanvas(px, py, w, h) /\ p = <<px, py>>}

\* for dx, dy in [(1, 0), (-1, 0), (0, 1), (0, -1)]: for i in range(1, spike_length)
CardinalRays(arr, w, h, x, y, B) ==
    [p \in DOMAIN arr |->
        LET at == StepsAt(p, w, h, x, y, CardinalDirs, SpikeLength(B))
        IN  IF at = {} THEN arr[p]
            ELSE Grey(NewVal(arr[p], SpikeVal(B, CHOOSE i \in at : TRUE)))]

\* for dx, dy in [(1, 1), (-1, 1), (1, -1), (-1, -1)]:
\*     for i in range(1, spike_length // 2)
DiagonalRays(arr, w, h, x, y, B) ==
    [p \in DOMAIN arr |->
        LET at == StepsAt(p, w, h, x, y, DiagonalDirs, DiagonalLength(B))
        IN  IF at = {} THEN arr[p]
            ELSE Grey(NewVal(arr[p], DiagonalVal(B, CHOOSE i \in at : TRUE)))]

draw_diffraction_spikes(arr, w, h, x, y, B) ==
    IF NoSpikes(B) THEN arr
    ELSE LET cardinal == CardinalRays(arr, w, h, x, y, B)
         IN  IF HasDiagonals(B)
             THEN DiagonalRays(cardinal, w, h, x, y, B)
             ELSE cardinal

(***************************************************************************)
(* generate()                                                              *)
(***************************************************************************)
\* Mutant: random.randint(0, self.width), whose upper end is included.
RandXInclusive(w) == 0..w

\* random.randint(0, self.width - 1), random.randint(0, self.height - 1)
RandX(w) == 0..(w - 1)
RandY(h) == 0..(h - 1)

\* if brightness > 8 (the gate of the second pass)
SpikeGate(B) == B > 800

\* Mutant: the spike pass entered after the first glyph (the loops fused).
Pass1DoneEarly(n, list) == n >= 1 \/ n = Len(list)

\* The first loop over `stars` is exhausted.
Pass1Done(n, list) == n = Len(list)

(***************************************************************************)
(* main()                                                                  *)
(***************************************************************************)
Init ==
    /\ pc = "parse_args"
    /\ args = None
    /\ width = 0
    /\ height = 0
    /\ img = None
    /\ stars = <<>>
    /\ drawn = 0
    /\ spiked = 0
    /\ img_array = None
    /\ saved = None

\* args = parser.parse_args()
ParseArgs ==
    /\ pc = "parse_args"
    /\ \E size \in SizeArgs, density \in DensityArgs, background \in BackgroundArgs :
          /\ WithinBounds(size, density)
          /\ args' = [size |-> size, density |-> density, background |-> background]
    /\ pc' = "parse_size"
    /\ UNCHANGED <<width, height, img, stars, drawn, spiked, img_array, saved>>

\* width, height = parse_size(args.size)
ParseSize ==
    /\ pc = "parse_size"
    /\ LET wh == parse_size(args.size)
       IN  IF wh = None
           THEN /\ pc' = "error"
                /\ UNCHANGED <<width, height>>
           ELSE /\ pc' = "check_density"
                /\ width' = wh[1]
                /\ height' = wh[2]
    /\ UNCHANGED <<args, img, stars, drawn, spiked, img_array, saved>>

\* if not 0.0 <= args.density <= 1.0: parser.error(...)
CheckDensity ==
    /\ pc = "check_density"
    /\ pc' = IF DensityOk(args.density) THEN "generate" ELSE "error"
    /\ UNCHANGED <<args, width, height, img, stars, drawn, spiked, img_array, saved>>

\* generator = StarfieldGenerator(...); generate(): img = self.parse_background(),
\* draw = ImageDraw.Draw(img), num_stars = ..., stars = []
ParseBackground ==
    /\ pc = "generate"
    /\ LET bg == parse_background(args.background, width, height)
       IN  IF bg = None
           THEN /\ pc' = "error"
                /\ UNCHANGED img
           ELSE /\ pc' = "sample"
                /\ img' = bg
    /\ stars' = <<>>
    /\ UNCHANGED <<args, width, height, drawn, spiked, img_array, saved>>

\* for _ in range(num_stars): stars.append((x, y, brightness))
SampleStar ==
    /\ pc = "sample"
    /\ Len(stars) < NumStars(width, height, args.density)
    /\ \E x \in RandX(width), y \in RandY(height), brightness \in BrightnessGrid :
          stars' = Append(stars, <<x, y, brightness>>)
    /\ UNCHANGED <<pc, args, width, height, img, drawn, spiked, img_array, saved>>

\* range(num_stars) is exhausted: the first loop over `stars` begins.
BeginPass1 ==
    /\ pc = "sample"
    /\ Len(stars) >= NumStars(width, height, args.density)
    /\ pc' = "pass1"
    /\ drawn' = 0
    /\ UNCHANGED <<args, width, height, img, stars, spiked, img_array, saved>>

\* for x, y, brightness in stars: self.draw_star(draw, x, y, brightness)
DrawStar ==
    /\ pc = "pass1"
    /\ ~Pass1Done(drawn, stars)
    /\ LET s == stars[drawn + 1]
       IN  img' = draw_star(img, s[1], s[2], s[3])
    /\ drawn' = drawn + 1
    /\ UNCHANGED <<pc, args, width, height, stars, spiked, img_array, saved>>

\* img_array = np.array(img): the second loop over `stars` begins.
ToArray ==
    /\ pc = "pass1"
    /\ Pass1Done(drawn, stars)
    /\ img_array' = img
    /\ pc' = "pass2"
    /\ spiked' = 0
    /\ UNCHANGED <<args, width, height, img, stars, drawn, saved>>

\* for x, y, brightness in stars: if brightness > 8: self.draw_diffraction_spikes(...)
SpikeStar ==
    /\ pc = "pass2"
    /\ spiked < Len(stars)
    /\ LET s == stars[spiked + 1]
       IN  img_array' = IF SpikeGate(s[3])
                        THEN draw_diffraction_spikes(img_array, width, height,
                                                     s[1], s[2], s[3])
                        ELSE img_array
    /\ spiked' = spiked + 1
    /\ UNCHANGED <<pc, args, width, height, img, stars, drawn, saved>>

\* img = Image.fromarray(img_array.astype('uint8'), 'RGB'); return img
Return ==
    /\ pc = "pass2"
    /\ spiked >= Len(stars)
    /\ img' = img_array
    /\ pc' = "save"
    /\ UNCHANGED <<args, width, height, stars, drawn, spiked, img_array, saved>>

\* img.save(args.output)
Save ==
    /\ pc = "save"
    /\ saved' = img
    /\ pc' = "done"
    /\ UNCHANGED <<args, width, height, img, stars, drawn, spiked, img_array>>

Next ==
    \/ ParseArgs
    \/ ParseSize
    \/ CheckDensity
    \/ ParseBackground
    \/ SampleStar
    \/ BeginPass1
    \/ DrawStar
    \/ ToArray
    \/ SpikeStar
    \/ Return
    \/ Save

Spec == Init /\ [][Next]_vars
(***************************************************************************)
(* Properties.                                                             *)
(***************************************************************************)
Abs(n) == IF n >= 0 THEN n ELSE -n

Generated == pc \in {"pass1", "pass2", "save", "done"}

\* The cardinal spike length and the diagonal length of the specification.
SpecSpikeLength(B) == (800 + (B - 900) * 12) \div 100
SpecDiagonalLength(B) == SpecSpikeLength(B) \div 2

\* floor(baseIntensity * (brightness - 9) * (1 - i / spikeLength))
SpecSpikeValue(B, i) ==
    (BaseIntensity(B) * (B - 900) * (SpecSpikeLength(B) - i))
        \div (100 * SpecSpikeLength(B))

\* floor(baseIntensity * (brightness - 9) * (1 - i / diagonalLength) * 0.5)
SpecDiagonalValue(B, i) ==
    (BaseIntensity(B) * (B - 900) * (SpecDiagonalLength(B) - i))
        \div (200 * SpecDiagonalLength(B))

\* Pixel p lies on one of the four cardinal rays of (x, y), at distance >= 1.
OnCardinal(p, x, y) == (p[1] = x) # (p[2] = y)
CardinalDistance(p, x, y) == Abs(p[1] - x) + Abs(p[2] - y)

\* Pixel p lies on one of the four diagonal rays of (x, y), at distance >= 1.
OnDiagonal(p, x, y) == Abs(p[1] - x) = Abs(p[2] - y) /\ p[1] # x
DiagonalDistance(p, x, y) == Abs(p[1] - x)

\* What the specification's addSpikes adds to pixel p for star s, -1 when it
\* leaves p alone.
SpecAdded(p, s) ==
    LET x == s[1]
        y == s[2]
        B == s[3]
    IN  IF B <= 900 THEN -1
        ELSE IF OnCardinal(p, x, y) /\ CardinalDistance(p, x, y) < SpecSpikeLength(B)
             THEN SpecSpikeValue(B, CardinalDistance(p, x, y))
        ELSE IF /\ B > 950
                /\ OnDiagonal(p, x, y)
                /\ DiagonalDistance(p, x, y) < SpecDiagonalLength(B)
             THEN SpecDiagonalValue(B, DiagonalDistance(p, x, y))
        ELSE -1

\* A step of the second loop: the star it consumes.
SpikeStarStep == pc = "pass2" /\ spiked' = spiked + 1
SpikedStar == stars[spiked + 1]

\* A step of the first loop: the star it consumes.
DrawStarStep == pc = "pass1" /\ drawn' = drawn + 1
DrawnStar == stars[drawn + 1]

(* C1: the whole star list is sampled before the first glyph is drawn, no  *)
(* spike is composited before draw_star has run for every star of the     *)
(* list, and the list does not change once drawing has begun.              *)
C1_TwoPass ==
    [][/\ DrawStarStep =>
            /\ Len(stars) = NumStars(width, height, args.density)
            /\ img_array = None
       /\ SpikeStarStep => drawn = Len(stars)
       /\ pc \in {"pass1", "pass2"} => stars' = stars]_vars

\* Both stars of a two-star list have been drawn, then both composited.
C1_Witness ==
    /\ pc = "pass2"
    /\ Len(stars) = 2
    /\ drawn = 2
    /\ spiked = 2
    /\ stars[1][3] > 900
    /\ stars[2][3] > 900
    /\ img_array # img

(* C2: after every spike compositing step every channel of every pixel of  *)
(* the buffer is in 0..255, and a pixel whose red channel plus the value   *)
(* added to it would exceed 255 holds exactly 255.                         *)
C2_Clamped ==
    [][SpikeStarStep =>
          \A p \in DOMAIN img_array' :
              /\ \A c \in 1..3 : img_array'[p][c] \in 0..255
              /\ img_array[p][1] + SpecAdded(p, SpikedStar) > 255
                    => img_array'[p] = Grey(255)]_vars

\* The rays of two stars overlap on a pixel that was below 255 and saturates.
C2_Witness ==
    /\ pc = "pass2"
    /\ spiked = 2
    /\ \E p \in DOMAIN img :
          /\ img[p][1] < 255
          /\ SpecAdded(p, stars[1]) > 0
          /\ SpecAdded(p, stars[2]) > 0
          /\ img[p][1] + SpecAdded(p, stars[1]) <= 255
          /\ img[p][1] + SpecAdded(p, stars[1]) + SpecAdded(p, stars[2]) > 255
          /\ img_array[p] = Grey(255)

(* C3: draw_diffraction_spikes with brightness <= 9 changes no pixel of    *)
(* the buffer, wherever the star is; so a star with brightness in (8, 9]   *)
(* leaves the buffer unchanged in the second pass.                         *)
C3_NoOpUpToNine ==
    [][/\ SpikeStarStep /\ SpikedStar[3] <= 900 => img_array' = img_array
       /\ pc = "pass2" =>
            \A x \in 0..(width - 1), y \in 0..(height - 1) :
                \A B \in {b \in BrightnessGrid : b <= 900} :
                    draw_diffraction_spikes(img_array, width, height, x, y, B)
                        = img_array]_vars

\* A star with brightness in (8, 9] was passed to draw_diffraction_spikes on a
\* canvas that has pixels on its rays; the buffer is as the glyph pass left it.
C3_Witness ==
    /\ pc = "pass2"
    /\ Len(stars) = 1
    /\ spiked = 1
    /\ stars[1][3] = 850
    /\ width >= 2
    /\ height >= 2
    /\ img_array = img

(* C4: generate() samples exactly floor(width * height * density) stars,   *)
(* each with x in [0, width) and y in [0, height); density 0 gives none.   *)
C4_StarCount ==
    /\ pc \in {"sample", "pass1", "pass2", "save", "done"} =>
          \A n \in 1..Len(stars) :
              /\ stars[n][1] \in 0..(width - 1)
              /\ stars[n][2] \in 0..(height - 1)
    /\ Generated =>
          /\ width >= 1
          /\ height >= 1
          /\ Len(stars) = (width * height * args.density) \div 100
          /\ args.density = 0 => stars = <<>>

\* floor(3 * 3 * 0.3) = 2 stars were sampled on the 3 x 3 canvas, one in the far
\* corner.
C4_Witness ==
    /\ pc = "pass1"
    /\ width = 3
    /\ height = 3
    /\ args.density = 30
    /\ Len(stars) = 2
    /\ stars[2][1] = 2
    /\ stars[2][2] = 2

\* The whole size string is WIDTHxHEIGHT or WIDTH:HEIGHT.
WellFormedSize(s) ==
    LET n1 == DigitRun(s, 1)
        n2 == DigitRun(s, n1 + 2)
    IN  /\ n1 >= 1
        /\ n2 >= 1
        /\ Len(s) = n1 + 1 + n2
        /\ s[n1 + 1] \in {"x", ":"}

\* The background is #RRGGBB or a loadable image.
ValidBackground(bg) ==
    \/ /\ Len(bg) = 7
       /\ bg[1] = "#"
       /\ \A c \in 2..7 : IsHex(bg[c])
    \/ bg = ImageFile

ConfigError ==
    \/ ~WellFormedSize(args.size)
    \/ ~(0 <= args.density /\ args.density <= 100)
    \/ ~ValidBackground(args.background)

(* C5: a run whose configuration is in error (malformed size, density      *)
(* outside [0, 1], background neither #RRGGBB nor a loadable image) never  *)
(* starts generating and saves nothing.                                    *)
C5_ConfigErrorsAbort ==
    pc # "parse_args" /\ ConfigError =>
        /\ pc \in {"parse_size", "check_density", "generate", "error"}
        /\ stars = <<>>
        /\ saved = None

\* floor(brightness / 10 * 255)
FloorIntensity(B) == (B * 255) \div 1000

\* The intensity the glyph of the star drawn last shows at its centre is I of its
\* brightness, and the first spike composited uses I as its baseIntensity (seen
\* along its cardinal rays).
IntensityIs(I(_)) ==
    /\ pc = "pass1" /\ drawn >= 1 =>
          img[<<stars[drawn][1], stars[drawn][2]>>] = Grey(I(stars[drawn][3]))
    /\ pc = "pass2" /\ spiked = 1 /\ stars[1][3] > 900 =>
          LET x == stars[1][1]
              y == stars[1][2]
              B == stars[1][3]
              L == SpecSpikeLength(B)
          IN  \A p \in DOMAIN img :
                  OnCardinal(p, x, y) /\ CardinalDistance(p, x, y) < L =>
                      img_array[p] =
                          Grey(Min(255, img[p][1]
                                  + (I(B) * (B - 900) * (L - CardinalDistance(p, x, y)))
                                        \div (100 * L)))

(* C6 as stated: the glyph intensity and the spikes' baseIntensity are     *)
(* round(brightness / 10 * 255), rounded to the nearest integer.           *)
C6_Rounded == IntensityIs(RoundedIntensity)

(* C6 as amended: the glyph intensity and the spikes' baseIntensity are    *)
(* floor(brightness / 10 * 255): the fraction is truncated, not rounded.   *)
C6_Truncated == IntensityIs(FloorIntensity)

\* A star of brightness 9.6 (24.48 * 9.6 = 244.8) in the corner of the black
\* 9 x 9 canvas: its glyph has intensity 244, and five pixels along the ray
\* floor(244 * 0.6 * 10 / 15) = 97 was added (98 with baseIntensity 245).
C6_Witness ==
    /\ pc = "pass2"
    /\ spiked = 1
    /\ stars[1] = <<0, 0, 960>>
    /\ width = 9
    /\ args.background = <<"#", "0", "0", "0", "0", "0", "0">>
    /\ img[<<0, 0>>] = Grey(244)
    /\ img_array[<<5, 0>>] = Grey(97)

\* The glyph of the specification: a point below 3, a disc of radius 1 below 6,
\* else a disc of radius floor(brightness / 5), with an outline ring of radius
\* one larger at half the intensity exactly when brightness > 8.
SpecGlyph(im, x, y, B) ==
    LET I == Intensity(B)
        r == B \div 500
    IN  IF B < 300
        THEN [p \in DOMAIN im |-> IF p = <<x, y>> THEN Grey(I) ELSE im[p]]
        ELSE IF B < 600
        THEN DrawEllipseFill(im, x, y, 1, Grey(I))
        ELSE IF B > 800
        THEN DrawEllipseOutline(DrawEllipseFill(im, x, y, r, Grey(I)),
                                x, y, r + 1, Grey(I \div 2))
        ELSE DrawEllipseFill(im, x, y, r, Grey(I))

(* C7: draw_star draws the glyph its brightness band selects: a single     *)
(* pixel below 3, a filled disc of radius 1 for 3 <= b < 6, a filled disc  *)
(* of radius floor(b / 5) for b >= 6, and the outline ring of radius one   *)
(* larger at intensity // 2 if and only if b > 8.                          *)
C7_Glyph ==
    [][DrawStarStep =>
          /\ img' = SpecGlyph(img, DrawnStar[1], DrawnStar[2], DrawnStar[3])
          /\ DrawnStar[3] < 300 =>
                \A p \in DOMAIN img : p # <<DrawnStar[1], DrawnStar[2]>> => img'[p] = img[p]
          /\ DrawnStar[3] <= 800 =>
                \A p \in DOMAIN img :
                    img'[p] # img[p] => img'[p] = Grey(Intensity(DrawnStar[3]))]_vars

\* A star of brightness 10 in the corner of the 9 x 9 canvas: a disc of radius 2
\* at 255 and the ring of radius 3 at 127 around it.
C7_Witness ==
    /\ pc = "pass1"
    /\ drawn = 1
    /\ width = 9
    /\ stars[1] = <<0, 0, 1000>>
    /\ img[<<2, 0>>] = Grey(255)
    /\ img[<<3, 0>>] = Grey(127)
    /\ img[<<4, 0>>] # Grey(127)

(* C8: for 9 < brightness <= 9.5 a compositing step changes only pixels    *)
(* on the four cardinal rays at distances 1 .. spikeLength - 1, each to    *)
(* min(255, red + floor(baseIntensity * (b - 9) * (1 - i / spikeLength))); *)
(* the value added does not increase with the distance; the centre, the    *)
(* pixels at distance >= spikeLength and those off the rays are unchanged, *)
(* and positions outside the canvas are skipped.                           *)
C8_CardinalRays ==
    [][SpikeStarStep /\ SpikedStar[3] > 900 /\ SpikedStar[3] <= 950 =>
          LET x == SpikedStar[1]
              y == SpikedStar[2]
              B == SpikedStar[3]
              L == SpecSpikeLength(B)
          IN  /\ DOMAIN img_array' = Pixels(width, height)
              /\ \A p \in DOMAIN img_array :
                    IF OnCardinal(p, x, y) /\ CardinalDistance(p, x, y) < L
                    THEN img_array'[p] =
                            Grey(Min(255, img_array[p][1]
                                    + SpecSpikeValue(B, CardinalDistance(p, x, y))))
                    ELSE img_array'[p] = img_array[p]
              /\ \A i \in 1..(L - 2) :
                    /\ SpikeVal(B, i + 1) <= SpikeVal(B, i)
                    /\ SpikeVal(B, i + 1) >= 0]_vars

\* A star of brightness 9.05 (spikeLength 8) in the corner of the 9 x 9 canvas:
\* its ray changed the pixels at distances 1 and 7 and not the one at distance 8,
\* nor the centre, nor the diagonal.
C8_Witness ==
    /\ pc = "pass2"
    /\ spiked = 1
    /\ width = 9
    /\ stars[1] = <<0, 0, 905>>
    /\ img_array[<<1, 0>>] # img[<<1, 0>>]
    /\ img_array[<<0, 7>>] # img[<<0, 7>>]
    /\ img_array[<<8, 0>>] = img[<<8, 0>>]
    /\ img_array[<<0, 0>>] = img[<<0, 0>>]
    /\ img_array[<<3, 3>>] = img[<<3, 3>>]

(* C9: a compositing step changes pixels on the four diagonals if and only *)
(* if brightness > 9.5, and then those at distances 1 .. diagonalLength-1, *)
(* diagonalLength = floor(spikeLength / 2), each to min(255, red +         *)
(* floor(baseIntensity * (b - 9) * (1 - i / diagonalLength) * 0.5)).       *)
C9_DiagonalRays ==
    [][SpikeStarStep =>
          LET x == SpikedStar[1]
              y == SpikedStar[2]
              B == SpikedStar[3]
          IN  \A p \in DOMAIN img_array :
                  OnDiagonal(p, x, y) =>
                      IF B > 950 /\ DiagonalDistance(p, x, y) < SpecDiagonalLength(B)
                      THEN img_array'[p] =
                              Grey(Min(255, img_array[p][1]
                                      + SpecDiagonalValue(B, DiagonalDistance(p, x, y))))
                      ELSE img_array'[p] = img_array[p]]_vars

\* A star of brightness 9.6 (diagonalLength 7) in the corner of the 9 x 9 canvas:
\* the diagonal changed at distances 1 and 6 and not at distance 7.
C9_Witness ==
    /\ pc = "pass2"
    /\ spiked = 1
    /\ width = 9
    /\ stars[1] = <<0, 0, 960>>
    /\ img_array[<<1, 1>>] # img[<<1, 1>>]
    /\ img_array[<<6, 6>>] # img[<<6, 6>>]
    /\ img_array[<<7, 7>>] = img[<<7, 7>>]

\* The second pass of generate() over `list`, from the buffer arr.
RECURSIVE SpikePass(_, _, _, _)
SpikePass(arr, w, h, list) ==
    IF list = <<>> THEN arr
    ELSE LET s == Head(list)
         IN  SpikePass(IF SpikeGate(s[3])
                       THEN draw_diffraction_spikes(arr, w, h, s[1], s[2], s[3])
                       ELSE arr,
                       w, h, Tail(list))

Orders(n) ==
    {f \in [1..n -> 1..n] : \A a, b \in 1..n : f[a] = f[b] => a = b}

\* The sum of the spike values of the first n stars that hit pixel p.
RECURSIVE SumAdded(_, _)
SumAdded(p, n) ==
    IF n = 0 THEN 0
    ELSE SumAdded(p, n - 1)
            + (IF SpecAdded(p, stars[n]) >= 0 THEN SpecAdded(p, stars[n]) ELSE 0)

(* C10: when the second pass is over, the buffer is the one the pass       *)
(* yields on the star list in any other order: every pixel some star's     *)
(* ray hits holds min(255, its red channel after the glyph pass + the sum  *)
(* of the spike values that hit it) in all three channels, and every       *)
(* other pixel is as the glyph pass left it.                               *)
C10_OrderIndependent ==
    pc = "pass2" /\ spiked = Len(stars) =>
        /\ \A f \in Orders(Len(stars)) :
              SpikePass(img, width, height, [n \in 1..Len(stars) |-> stars[f[n]]])
                  = img_array
        /\ \A p \in DOMAIN img :
              IF \E n \in 1..Len(stars) : SpecAdded(p, stars[n]) >= 0
              THEN img_array[p] = Grey(Min(255, img[p][1] + SumAdded(p, Len(stars))))
              ELSE img_array[p] = img[p]

\* Two stars whose rays add different values to one pixel, which does not
\* saturate: it holds the glyph pass's red value plus both.
C10_Witness ==
    /\ pc = "pass2"
    /\ spiked = 2
    /\ Len(stars) = 2
    /\ \E p \in DOMAIN img :
          /\ SpecAdded(p, stars[1]) > 0
          /\ SpecAdded(p, stars[2]) > 0
          /\ SpecAdded(p, stars[1]) # SpecAdded(p, stars[2])
          /\ img[p][2] # img[p][1]
          /\ img[p][1] + SpecAdded(p, stars[1]) + SpecAdded(p, stars[2]) < 255
          /\ img_array[p] =
                Grey(img[p][1] + SpecAdded(p, stars[1]) + SpecAdded(p, stars[2]))

=============================================================================
